---- MODULE Spec2Model ----
(***************************************************************************)
(* Model of multiversum: the plugin host (src/host.js: function identity,  *)
(* channel table, dispatch engine) and the application lifecycle manager   *)
(* (src/app.js).  JavaScript is single threaded and every API call runs to *)
(* completion, so every API call is one atomic action.                     *)
(***************************************************************************)
EXTENDS Integers, Sequences, FiniteSets, TLC

\* ------------------------------------------------------------------ bounds
\* Number of registration-changing host API calls in one behaviour.
MaxOps == 3

\* ------------------------------------------------------------------ inputs
\* Function values handed to the host.  f1 and f2 have identical source text
\* (same md5 of Function.prototype.toString), f3 has a different one.
Fns == {"f1", "f2", "f3"}

NoVer == ""
NoFn == "-"
Undefined == <<"undefined", "-">>

\* A channel string "name@ver" as the pair of its parts ("" = no "@ver").
Chan(n, v) == [name |-> n, ver |-> v]

\* The API calls of a behaviour: (channel, function) pairs for connect,
\* disconnect and decorate, (channel string, function) for removeDecorator,
\* (channel, onError supplied) for call.
ConnectInputs ==
    ({Chan("foo", NoVer)} \X Fns)
    \cup {<<Chan("foo", "2.3.1"), "f3">>, <<Chan("bar", NoVer), "f1">>}
DisconnectInputs ==
    ({Chan("foo", NoVer)} \X Fns) \cup {<<Chan("bar", NoVer), "f1">>}
DecorateInputs ==
    ({Chan("foo", NoVer), Chan("*", NoVer)} \X {"f1", "f3"})
    \cup {<<Chan("foo", "2.x"), "f1">>, <<Chan("bar", NoVer), "f3">>}
RemoveInputs == {"foo", "*"} \X {"f1", "f3"}
CallInputs ==
    {<<Chan("foo", NoVer), TRUE>>, <<Chan("foo", "2.x"), FALSE>>,
     <<Chan("bar", NoVer), FALSE>>}

\* config objects handed to connect/decorate: none, or {priority, onError}.
\* Each function is always registered with the same config object.
NoConfig == [given |-> FALSE, priority |-> 0, onError |-> FALSE]
ConfigOf(fn) ==
    CASE fn = "f1" -> NoConfig
      [] fn = "f2" -> [given |-> TRUE, priority |-> 2, onError |-> TRUE]
      [] OTHER -> [given |-> TRUE, priority |-> -1, onError |-> TRUE]

\* What a function does when it is invoked (chosen per call: JavaScript
\* functions are impure).  Subscriber shaped: "ret", "throwObj", "throwPrim"
\* (throws a value on which no property can be set: a string, a number, a
\* frozen object).  Decorator shaped (fn => wrapper): "pass" (wrapper calls
\* the continuation once and returns its value), "throwPre" (wrapper throws
\* before calling it), "throwPost" (throws after it returned), "noNext"
\* (returns a value of its own), "twice" (calls the continuation twice),
\* "factoryThrow" (the factory itself throws).
SubKinds == {"ret", "throwObj", "throwPrim"}
DecKinds == {"pass", "throwPre", "throwPost", "noNext", "twice", "factoryThrow"}
Kinds == SubKinds \cup DecKinds

VARIABLES
    ids,          \* host.js:155 ids: hash -> list of functions
    channels,     \* host.js:155 channels: name -> registrations (own-key order)
    decorators,   \* host.js:155 decorators: name or "*" -> registrations
    descriptors,  \* host.js:155 descriptors: id -> descriptor
    identified,   \* history: the ids getId has returned for each function
    nops,         \* history: number of registration-changing calls so far
    res           \* the last API call and what it produced

hostVars == <<ids, channels, decorators, descriptors, identified, nops>>

\* ------------------------------------------------------ function identity
createHash(fn) == IF fn = "f3" THEN "hB" ELSE "hA"

Hashes == {createHash(f) : f \in Fns}

\* ids are object keys: the string hash + "__" + index, or a number
StrId(h, n) == <<h, n>>
NumId(n) == <<"", n>>
IsNum(id) == id[1] = ""

indexOf(seq, x) ==
    IF \E i \in 1..Len(seq) : seq[i] = x
    THEN (CHOOSE i \in 1..Len(seq) : seq[i] = x /\ \A j \in 1..(i-1) : seq[j] # x) - 1
    ELSE -1

\* An identity made of the content hash alone
getId_HashOnly(idsv, fn) == StrId(createHash(fn), 0)

\* getId(fn): the id it returns ...
getId(idsv, fn) ==
    LET hash == createHash(fn)
        id == indexOf(idsv[hash], fn)
    IN IF id >= 0
       THEN NumId(id)
       ELSE StrId(hash, indexOf(Append(idsv[hash], fn), fn))

\* ... and the ids table it leaves behind
getIdIds(idsv, fn) ==
    LET hash == createHash(fn)
    IN IF indexOf(idsv[hash], fn) >= 0
       THEN idsv
       ELSE [idsv EXCEPT ![hash] = Append(@, fn)]

Identify(fn) == [identified EXCEPT ![fn] = @ \cup {getId(ids, fn)}]

\* ---------------------------------------------------------------- semver
\* semver.coerce(s).version for the version segments used ("null": coerce
\* returns null and reading .version throws a TypeError)
semverCoerce(s) ==
    CASE s = "1" -> "1.0.0"
      [] s = "1.x" -> "1.0.0"
      [] s = "1.0.0" -> "1.0.0"
      [] s = "2" -> "2.0.0"
      [] s = "2.x" -> "2.0.0"
      [] s = "2.3.1" -> "2.3.1"
      [] OTHER -> "null"

Major(version) == IF version = "1.0.0" THEN 1 ELSE 2

\* semver.satisfies(version, range) for full versions and the ranges used
semverSatisfies(version, range) ==
    CASE range = "1.x" -> Major(version) = 1
      [] range = "1" -> Major(version) = 1
      [] range = "2.x" -> Major(version) = 2
      [] range = "2" -> Major(version) = 2
      [] range = ">=1" -> TRUE
      [] OTHER -> version = range

extractVersion(ch) == semverCoerce(IF ch.ver = NoVer THEN "1" ELSE ch.ver)

normalizeChannelName(ch) == ch.name

\* The channel string as written: a string with an "@ver" segment is the name
\* of no channel (table keys are normalized names).
rawChannel(ch) == IF ch.ver = NoVer THEN ch.name ELSE "name@ver"

\* config.priority = typeof config.priority === "number" ? config.priority : 0
normalizeConfig(config) ==
    [priority |-> IF config.given THEN config.priority ELSE 0,
     onError |-> config.given /\ config.onError]

\* ------------------------------------------------------------ object maps
\* A JavaScript object as the sequence of its values in Object.keys order:
\* integer keys ascending first, then string keys in insertion order.
HasKey(obj, id) == \E i \in 1..Len(obj) : obj[i].id = id

RECURSIVE PutKey(_, _)
PutKey(obj, reg) ==
    IF obj = <<>> THEN <<reg>>
    ELSE IF Head(obj).id = reg.id THEN <<reg>> \o Tail(obj)
    ELSE IF IsNum(reg.id) /\ (~IsNum(Head(obj).id) \/ Head(obj).id[2] > reg.id[2])
         THEN <<reg>> \o obj
    ELSE <<Head(obj)>> \o PutKey(Tail(obj), reg)

DeleteKey(obj, id) == SelectSeq(obj, LAMBDA r : r.id # id)

Table(tbl, name) == IF name \in DOMAIN tbl THEN tbl[name] ELSE <<>>

\* ---------------------------------------------------------- registration
hasDescriptor(descs, id) == id \in DOMAIN descs

createDescriptor(descs, id, fn) ==
    (id :> [id |-> id, fn |-> fn, channels |-> {}, decorated |-> {}]) @@ descs

\* A clean-up that keeps every descriptor
cleanUpDescriptor_Never(descs, id) == descs

cleanUpDescriptor(descs, id) ==
    IF descs[id].channels = {} /\ descs[id].decorated = {}
    THEN [i \in DOMAIN descs \ {id} |-> descs[i]]
    ELSE descs

\* res after an API call other than call()
NoCall == [op |-> "none", ch |-> Chan("", NoVer), onError |-> FALSE, kinds |-> <<>>,
           outcome |-> "ok", value |-> Undefined, log |-> <<>>]

\* A call() leaves the tables as they are: behaviours are explored with the
\* call last, every other API call is made from a state that holds no call
\* result.
Idle == res.op = "none"

\* history: an API call that changed the host's tables is counted
Counted ==
    IF <<ids, channels, decorators, descriptors, identified>>'
         = <<ids, channels, decorators, descriptors, identified>>
    THEN nops ELSE nops + 1

\* connect(channel, fn, config)
Connect(ch, fn, config) ==
    LET id == getId(ids, fn)
        version == extractVersion(ch)
        name == normalizeChannelName(ch)
        chans1 == IF name \in DOMAIN channels THEN channels ELSE (name :> <<>>) @@ channels
        descs1 == IF hasDescriptor(descriptors, id) THEN descriptors
                  ELSE createDescriptor(descriptors, id, fn)
        reg == [id |-> id, channel |-> name, version |-> version,
                config |-> normalizeConfig(config)]
    IN /\ Idle
       /\ nops < MaxOps
       /\ ids' = getIdIds(ids, fn)
       /\ identified' = Identify(fn)
       /\ UNCHANGED decorators
       /\ IF version = "null" \/ (ch.name = "*" /\ ch.ver = NoVer)
          THEN \* TypeError of extractVersion, or the assert on "*"
               /\ UNCHANGED <<channels, descriptors>>
               /\ res' = NoCall
          ELSE IF name \in DOMAIN channels /\ HasKey(channels[name], id)
          THEN /\ UNCHANGED <<channels, descriptors>>
               /\ res' = NoCall
          ELSE /\ channels' = [chans1 EXCEPT ![name] = PutKey(@, reg)]
               /\ descriptors' = [descs1 EXCEPT ![id].channels = @ \cup {name}]
               /\ res' = NoCall
       /\ nops' = Counted

\* disconnect(channel, fn): channel is used as given, not normalized
Disconnect(ch, fn) ==
    LET id == getId(ids, fn)
        key == rawChannel(ch)
        found == key \in DOMAIN channels /\ HasKey(channels[key], id)
        descs1 == IF found THEN [descriptors EXCEPT ![id].channels = @ \ {key}]
                  ELSE descriptors
    IN /\ Idle
       /\ nops < MaxOps
       /\ ids' = getIdIds(ids, fn)
       /\ identified' = Identify(fn)
       /\ UNCHANGED decorators
       /\ res' = NoCall
       /\ IF ~hasDescriptor(descriptors, id)
          THEN UNCHANGED <<channels, descriptors>>
          ELSE /\ channels' = IF found THEN [channels EXCEPT ![key] = DeleteKey(@, id)]
                              ELSE channels
               /\ descriptors' = cleanUpDescriptor(descs1, id)
       /\ nops' = Counted

\* decorate(channel, fn, config), and decorate(fn, config) as decorate("*", ...)
Decorate(ch, fn, config) ==
    LET id == getId(ids, fn)
        version == IF ch.ver = NoVer THEN "1.x" ELSE ch.ver
        name == normalizeChannelName(ch)
        decs1 == IF name \in DOMAIN decorators THEN decorators
                 ELSE (name :> <<>>) @@ decorators
        descs1 == IF hasDescriptor(descriptors, id) THEN descriptors
                  ELSE createDescriptor(descriptors, id, fn)
        reg == [id |-> id, channel |-> name, version |-> version,
                config |-> normalizeConfig(config)]
    IN /\ Idle
       /\ nops < MaxOps
       /\ ids' = getIdIds(ids, fn)
       /\ identified' = Identify(fn)
       /\ UNCHANGED channels
       /\ res' = NoCall
       /\ IF name \in DOMAIN decorators /\ HasKey(decorators[name], id)
          THEN UNCHANGED <<decorators, descriptors>>
          ELSE /\ decorators' = [decs1 EXCEPT ![name] = PutKey(@, reg)]
               /\ descriptors' = [descs1 EXCEPT ![id].decorated = @ \cup {name}]
       /\ nops' = Counted

\* removeDecorator(channel, fn) with a string channel
RemoveDecorator(name, fn) ==
    LET id == getId(ids, fn)
        found == name \in DOMAIN decorators /\ HasKey(decorators[name], id)
        descs1 == IF found THEN [descriptors EXCEPT ![id].decorated = @ \ {name}]
                  ELSE descriptors
    IN /\ Idle
       /\ nops < MaxOps
       /\ ids' = getIdIds(ids, fn)
       /\ identified' = Identify(fn)
       /\ UNCHANGED channels
       /\ res' = NoCall
       /\ IF ~hasDescriptor(descriptors, id)
          THEN UNCHANGED <<decorators, descriptors>>
          ELSE /\ decorators' = IF found THEN [decorators EXCEPT ![name] = DeleteKey(@, id)]
                                ELSE decorators
               /\ descriptors' = cleanUpDescriptor(descs1, id)
       /\ nops' = Counted

\* ----------------------------------------------------------------- call
\* values functions return
SubVal(fn) == <<"sub", fn>>
DecVal(fn) == <<"dec", fn>>
WrapperVal(fn) == <<"wrapper", fn>>

\* thrown values
NoErr == [kind |-> "none", mustReThrow |-> FALSE]
ObjErr == [kind |-> "obj", mustReThrow |-> FALSE]
PrimErr == [kind |-> "prim", mustReThrow |-> FALSE]

\* error.mustReThrow = true: sticks on an ordinary object, is silently lost on
\* a primitive (host.js is sloppy-mode code)
Tag(err) == IF err.kind = "obj" THEN [err EXCEPT !.mustReThrow = TRUE] ELSE err

\* A continuation that rethrows every object it catches
MustReThrow_AnyObject(err) == err.kind = "obj"

\* error && typeof error === "object" && error.mustReThrow
MustReThrow(err) == err.kind = "obj" /\ err.mustReThrow

\* prioritySort as the comparator of a stable Array.prototype.sort
\* An insertion that orders by descending priority
RECURSIVE SortInsert_Descending(_, _)
SortInsert_Descending(sorted, x) ==
    IF sorted = <<>> THEN <<x>>
    ELSE IF Head(sorted).config.priority < x.config.priority THEN <<x>> \o sorted
    ELSE <<Head(sorted)>> \o SortInsert_Descending(Tail(sorted), x)

RECURSIVE SortInsert(_, _)
SortInsert(sorted, x) ==
    IF sorted = <<>> THEN <<x>>
    ELSE IF Head(sorted).config.priority > x.config.priority THEN <<x>> \o sorted
    ELSE <<Head(sorted)>> \o SortInsert(Tail(sorted), x)

RECURSIVE prioritySort(_)
prioritySort(seq) ==
    IF seq = <<>> THEN <<>>
    ELSE SortInsert(prioritySort(SubSeq(seq, 1, Len(seq) - 1)), seq[Len(seq)])

Reverse(seq) == [i \in 1..Len(seq) |-> seq[Len(seq) + 1 - i]]

\* merge(a, b): a's keys, then b's; b's value wins on a shared key
RECURSIVE merge(_, _)
merge(a, b) == IF b = <<>> THEN a ELSE merge(PutKey(a, Head(b)), Tail(b))

\* prioritize(subscribers, version): version "" stands for no version argument
prioritize(obj, version) ==
    LET versionMatches(r) == version = NoVer \/ semverSatisfies(r.version, version)
        getFn(r) == [fn |-> descriptors[r.id].fn, channel |-> r.channel,
                     version |-> r.version, config |-> r.config, id |-> r.id]
        sorted == prioritySort(SelectSeq(obj, versionMatches))
    IN [i \in 1..Len(sorted) |-> getFn(sorted[i])]

\* What a function of kind k does in each role
AsSub(k) ==
    CASE k \in SubKinds -> k
      [] k = "factoryThrow" -> "throwObj"
      [] OTHER -> "retWrapper"

FactoryThrows(k) == k \in {"factoryThrow", "throwObj", "throwPrim"}

AsWrapper(k) == IF k = "ret" THEN "notFn" ELSE k

\* The state of one attempt: the shared queue `decorated`, the shared
\* lastValue, and what a continuation or function call produced.
Ev(e, st, el) == [e |-> e, k |-> st.k, id |-> el.id, fn |-> el.fn]
Logged(st, evs) == [st EXCEPT !.log = @ \o evs]
Return(st, v) == [st EXCEPT !.thrown = FALSE, !.value = v, !.err = NoErr]
Throw(st, err) == [st EXCEPT !.thrown = TRUE, !.err = err]

\* current.fn.apply(null, arguments) for the last element, the subscriber
applySubscriber(cur, st) ==
    LET st1 == Logged(st, <<Ev("sub", st, cur)>>)
        a == AsSub(cur.kind)
    IN CASE a = "ret" -> Return(st1, SubVal(cur.fn))
         [] a = "retWrapper" -> Return(st1, WrapperVal(cur.fn))
         [] a = "throwObj" -> Throw(Logged(st1, <<Ev("subThrow", st, cur)>>), ObjErr)
         [] OTHER -> Throw(Logged(st1, <<Ev("subThrow", st, cur)>>), PrimErr)

RECURSIVE nextLoop(_, _), applyDecorator(_, _)

\* next(): the continuation handed to every decorator factory
next(st) == nextLoop(st, st.lastValue)

\* the while loop of next(); value is its local variable
nextLoop(st, value) ==
    IF st.decorated = <<>> THEN Return(st, value)
    ELSE LET current == Head(st.decorated)
             st1 == [st EXCEPT !.decorated = Tail(@)]
         IN IF st1.decorated = <<>>
            THEN LET r == applySubscriber(current, st1)
                 IN IF r.thrown THEN Throw(r, Tag(r.err)) ELSE r
            ELSE LET r == applyDecorator(current, st1)
                 IN IF ~r.thrown
                    THEN nextLoop([r EXCEPT !.lastValue = r.value], r.value)
                    ELSE IF MustReThrow(r.err) THEN r
                    ELSE nextLoop(
                           Logged(r, (IF current.config.onError
                                      THEN <<Ev("decHook", st, current)>> ELSE <<>>)
                                     \o <<Ev("decoratorError", st, current)>>),
                           value)

\* current.fn.apply(null, arguments) for a decorator's wrapper
applyDecorator(cur, st) ==
    LET w == AsWrapper(cur.kind)
        pre == Logged(st, <<Ev("pre", st, cur)>>)
        fail(s) == Throw(Logged(s, <<Ev("decThrow", st, cur)>>), ObjErr)
        post(s) == Logged(s, <<Ev("post", st, cur)>>)
    IN CASE w = "notFn" -> fail(st)
         [] w = "throwPre" -> fail(pre)
         [] w = "noNext" -> Return(pre, DecVal(cur.fn))
         [] w = "pass" ->
              LET r == next(pre) IN IF r.thrown THEN r ELSE Return(post(r), r.value)
         [] w = "throwPost" ->
              LET r == next(pre) IN IF r.thrown THEN r ELSE fail(post(r))
         [] OTHER -> \* twice
              LET r1 == next(pre)
              IN IF r1.thrown THEN r1
                 ELSE LET r2 == next(r1)
                      IN IF r2.thrown THEN r2 ELSE Return(post(r2), r2.value)

\* One candidate of subscribers.reverse().some(...): the decorators whose
\* factories are invoked, in order, up to the first factory that throws
Materialized(decos, kinds) ==
    LET bad == {i \in 1..Len(decos) : FactoryThrows(kinds[decos[i].fn])}
        upto == IF bad = {} THEN Len(decos)
                ELSE CHOOSE i \in bad : \A j \in bad : i <= j
    IN [n |-> upto, threw |-> bad # {}]

RECURSIVE attempts(_, _, _, _, _, _)
attempts(cands, decorations, onError, kinds, k, log) ==
    IF cands = <<>>
    THEN [outcome |-> "ret", value |-> Undefined, log |-> log]
    ELSE
    LET subscriber == Head(cands)
        versionMatches(d) ==
            d.channel = "*" \/ semverSatisfies(subscriber.version, d.version)
        decos == SelectSeq(decorations, versionMatches)
        m == Materialized(decos, kinds)
        el(r, role) == [role |-> role, id |-> r.id, fn |-> r.fn, config |-> r.config,
                        kind |-> kinds[r.fn]]
        facts == [i \in 1..m.n |->
                    [e |-> "factory", k |-> k, id |-> decos[i].id, fn |-> decos[i].fn]]
        start == [e |-> "attempt", k |-> k, id |-> subscriber.id, fn |-> subscriber.fn]
        st == [decorated |-> [i \in 1..Len(decos) |-> el(decos[i], "dec")]
                             \o <<el(subscriber, "sub")>>,
               lastValue |-> Undefined, log |-> log \o <<start>> \o facts, k |-> k,
               thrown |-> FALSE, value |-> Undefined, err |-> NoErr]
    IN IF m.threw
       THEN [outcome |-> "raise", value |-> Undefined, log |-> st.log]
       ELSE LET r == next(st)
                me == [id |-> subscriber.id, fn |-> subscriber.fn]
                hooks == (IF subscriber.config.onError
                          THEN <<Ev("subHook", st, me)>> ELSE <<>>)
                         \o (IF onError THEN <<Ev("onError", st, me)>> ELSE <<>>)
                         \o <<Ev("subscriberError", st, me)>>
            IN IF ~r.thrown
               THEN [outcome |-> "ret", value |-> r.value, log |-> r.log]
               ELSE attempts(Tail(cands), decorations, onError, kinds, k + 1,
                             r.log \o hooks)

\* A candidate list built without the version filter
callSubscribers_AnyVersion(ch) ==
    prioritize(Table(channels, normalizeChannelName(ch)), NoVer)

callSubscribers(ch) ==
    prioritize(Table(channels, normalizeChannelName(ch)),
               IF ch.ver = NoVer THEN "1.x" ELSE ch.ver)

\* A decoration list without the wildcard pool
callDecorations_ChannelOnly(ch) ==
    prioritize(Table(decorators, normalizeChannelName(ch)), NoVer)

callDecorations(ch) ==
    prioritize(merge(Table(decorators, normalizeChannelName(ch)), Table(decorators, "*")),
               NoVer)

\* A call that does not test whether any subscriber matches
call_Unchecked(ch, onError, kinds) ==
    attempts(Reverse(callSubscribers(ch)), callDecorations(ch), onError, kinds, 1, <<>>)

\* call(channel, args, onError)
call(ch, onError, kinds) ==
    LET subscribers == callSubscribers(ch)
        decorations == callDecorations(ch)
    IN IF Len(subscribers) = 0
       THEN [outcome |-> "noImplementation", value |-> Undefined, log |-> <<>>]
       ELSE attempts(Reverse(subscribers), decorations, onError, kinds, 1, <<>>)

\* The functions a call may dispatch to, and what each may do: a function
\* dispatched only as subscriber is subscriber shaped, one dispatched only as
\* decorator is decorator shaped.
SubFns(ch) ==
    LET subscribers == callSubscribers(ch)
    IN {subscribers[i].fn : i \in 1..Len(subscribers)}

DecFns(ch) ==
    LET decorations == callDecorations(ch)
    IN {decorations[i].fn : i \in 1..Len(decorations)}

KindChoices(ch) ==
    LET S == SubFns(ch)
        D == IF S = {} THEN {} ELSE DecFns(ch)
        allowed == [f \in S \cup D |->
                      (IF f \in S THEN SubKinds ELSE {})
                      \cup (IF f \in D THEN DecKinds ELSE {})]
    IN {kinds \in [S \cup D -> Kinds] : \A f \in S \cup D : kinds[f] \in allowed[f]}

Call(ch, onError, kinds) ==
    LET out == call(ch, onError, kinds)
    IN /\ Idle
       /\ res' = [op |-> "call", ch |-> ch, onError |-> onError, kinds |-> kinds,
                  outcome |-> out.outcome, value |-> out.value, log |-> out.log]
       /\ UNCHANGED hostVars

\* ------------------------------------------------------------ interfaces
\* createInterface(name, methods): the method keys in Object.keys order, each
\* with the "@ver" segment of its key ("" = none) and its implementation
Method(k, v, fn) == [key |-> k, ver |-> v, fn |-> fn]
Iface(n, ms) == [name |-> n, methods |-> ms]
IfaceDefs ==
    {Iface("calc", <<Method("add", NoVer, "f1"), Method("sub", "2.3.1", "f3")>>),
     Iface("calc", <<Method("add", NoVer, "f2")>>),
     Iface("calc", <<Method("sub", "2.3.1", "f1")>>)}

\* channel objects: (channel string, an error handler was added with onError)
ChannelObjects ==
    {Chan("calc/add", NoVer), Chan("calc/sub", "2.3.1")} \X BOOLEAN

\* prefixProperties(name, methods): channel string -> implementation
prefixProperties(iface) ==
    [i \in DOMAIN iface.methods |->
       [ch |-> Chan(iface.name \o "/" \o iface.methods[i].key, iface.methods[i].ver),
        fn |-> iface.methods[i].fn]]

\* the host's tables as a value that connectMany and disconnectMany thread
\* through their loops
HostState ==
    [ids |-> ids, channels |-> channels, descriptors |-> descriptors,
     identified |-> identified, thrown |-> FALSE]

\* connect(channelName, impl) as a step of connectMany
connectOne(st, ch, fn) ==
    LET id == getId(st.ids, fn)
        version == extractVersion(ch)
        name == normalizeChannelName(ch)
        chans1 == IF name \in DOMAIN st.channels THEN st.channels
                  ELSE (name :> <<>>) @@ st.channels
        descs1 == IF hasDescriptor(st.descriptors, id) THEN st.descriptors
                  ELSE createDescriptor(st.descriptors, id, fn)
        reg == [id |-> id, channel |-> name, version |-> version,
                config |-> normalizeConfig(NoConfig)]
        st1 == [st EXCEPT !.ids = getIdIds(st.ids, fn),
                          !.identified[fn] = @ \cup {id}]
    IN IF version = "null" \/ (ch.name = "*" /\ ch.ver = NoVer)
       THEN [st1 EXCEPT !.thrown = TRUE]
       ELSE IF name \in DOMAIN st.channels /\ HasKey(st.channels[name], id)
       THEN st1
       ELSE [st1 EXCEPT !.channels = [chans1 EXCEPT ![name] = PutKey(@, reg)],
                        !.descriptors = [descs1 EXCEPT ![id].channels = @ \cup {name}]]

\* disconnect(channelName, impl) as a step of disconnectMany
disconnectOne(st, ch, fn) ==
    LET id == getId(st.ids, fn)
        key == rawChannel(ch)
        found == key \in DOMAIN st.channels /\ HasKey(st.channels[key], id)
        descs1 == IF found THEN [st.descriptors EXCEPT ![id].channels = @ \ {key}]
                  ELSE st.descriptors
        st1 == [st EXCEPT !.ids = getIdIds(st.ids, fn),
                          !.identified[fn] = @ \cup {id}]
    IN IF ~hasDescriptor(st.descriptors, id) THEN st1
       ELSE [st1 EXCEPT !.channels = IF found
                                     THEN [st.channels EXCEPT ![key] = DeleteKey(@, id)]
                                     ELSE st.channels,
                        !.descriptors = cleanUpDescriptor(descs1, id)]

\* the forEach loops; an exception leaving the body ends the loop
RECURSIVE connectMany(_, _, _)
connectMany(st, implementations, i) ==
    IF i > Len(implementations) \/ st.thrown THEN st
    ELSE connectMany(connectOne(st, implementations[i].ch, implementations[i].fn),
                     implementations, i + 1)

RECURSIVE disconnectMany(_, _, _)
disconnectMany(st, implementations, i) ==
    IF i > Len(implementations) \/ st.thrown THEN st
    ELSE disconnectMany(disconnectOne(st, implementations[i].ch, implementations[i].fn),
                        implementations, i + 1)

Installed(st) ==
    /\ ids' = st.ids
    /\ channels' = st.channels
    /\ descriptors' = st.descriptors
    /\ identified' = st.identified
    /\ UNCHANGED decorators
    /\ res' = NoCall
    /\ nops' = Counted

\* connectInterface(iface)
ConnectInterface(iface) ==
    /\ Idle
    /\ nops < MaxOps
    /\ Installed(connectMany(HostState, prefixProperties(iface), 1))

\* disconnectInterface(iface)
DisconnectInterface(iface) ==
    /\ Idle
    /\ nops < MaxOps
    /\ Installed(disconnectMany(HostState, prefixProperties(iface), 1))

\* channel(name).call(...): call() with bus.emit.bind(bus, "error") of the
\* channel object's own emitter as onError.  With a handler added the handler
\* receives the error; without one emit("error") throws it inside the catch
\* block of the attempt, which ends call() before subscriberError is emitted
\* and before the next candidate is tried.
callChannel(ch, listening, kinds) ==
    LET out == call(ch, listening, kinds)
        failed == {i \in DOMAIN out.log : out.log[i].e = "subscriberError"}
        first == CHOOSE i \in failed : \A j \in failed : i <= j
    IN IF listening \/ failed = {} THEN out
       ELSE [outcome |-> "raise", value |-> Undefined,
             log |-> SubSeq(out.log, 1, first - 1)]

\* a method of an interface definition, an interface client or a facade is
\* channel(name).call of a channel object nobody else holds; ChannelCall with
\* listening is channel(name).onError(handler).call(...)
ChannelCall(ch, listening, kinds) ==
    LET out == callChannel(ch, listening, kinds)
    IN /\ Idle
       /\ res' = [op |-> "channelCall", ch |-> ch, onError |-> listening, kinds |-> kinds,
                  outcome |-> out.outcome, value |-> out.value, log |-> out.log]
       /\ UNCHANGED hostVars

\* ------------------------------------------- registration during a call
\* A subscriber, a decorator or an error hook may call connect, disconnect,
\* decorate or removeDecorator of the host while call() is running.

\* decorate(channel, fn) as a function of the tables it works on
decorateOne(st, ch, fn) ==
    LET id == getId(st.ids, fn)
        version == IF ch.ver = NoVer THEN "1.x" ELSE ch.ver
        name == normalizeChannelName(ch)
        decs1 == IF name \in DOMAIN st.decorators THEN st.decorators
                 ELSE (name :> <<>>) @@ st.decorators
        descs1 == IF hasDescriptor(st.descriptors, id) THEN st.descriptors
                  ELSE createDescriptor(st.descriptors, id, fn)
        reg == [id |-> id, channel |-> name, version |-> version,
                config |-> normalizeConfig(NoConfig)]
        st1 == [st EXCEPT !.ids = getIdIds(st.ids, fn),
                          !.identified[fn] = @ \cup {id}]
    IN IF name \in DOMAIN st.decorators /\ HasKey(st.decorators[name], id)
       THEN st1
       ELSE [st1 EXCEPT !.decorators = [decs1 EXCEPT ![name] = PutKey(@, reg)],
                        !.descriptors = [descs1 EXCEPT ![id].decorated = @ \cup {name}]]

\* removeDecorator(channel, fn) as a function of the tables it works on
removeDecoratorOne(st, name, fn) ==
    LET id == getId(st.ids, fn)
        found == name \in DOMAIN st.decorators /\ HasKey(st.decorators[name], id)
        descs1 == IF found THEN [st.descriptors EXCEPT ![id].decorated = @ \ {name}]
                  ELSE st.descriptors
        st1 == [st EXCEPT !.ids = getIdIds(st.ids, fn),
                          !.identified[fn] = @ \cup {id}]
    IN IF ~hasDescriptor(st.descriptors, id) THEN st1
       ELSE [st1 EXCEPT !.decorators = IF found
                                       THEN [st.decorators EXCEPT ![name] = DeleteKey(@, id)]
                                       ELSE st.decorators,
                        !.descriptors = cleanUpDescriptor(descs1, id)]

\* what the code run by an attempt does to the host: nothing, or one API call
NoReentry == [op |-> "none", ch |-> Chan("", NoVer), fn |-> NoFn]
Reentry(op, ch, fn) == [op |-> op, ch |-> ch, fn |-> fn]
Reentries ==
    {NoReentry,
     Reentry("connect", Chan("foo", NoVer), "f3"),
     Reentry("disconnect", Chan("foo", NoVer), "f1"),
     Reentry("decorate", Chan("foo", NoVer), "f3"),
     Reentry("removeDecorator", Chan("foo", NoVer), "f1")}

\* the tables after the API call re
reenter(re) ==
    LET st == [ids |-> ids, channels |-> channels, decorators |-> decorators,
               descriptors |-> descriptors, identified |-> identified, thrown |-> FALSE]
    IN CASE re.op = "connect" -> connectOne(st, re.ch, re.fn)
         [] re.op = "disconnect" -> disconnectOne(st, re.ch, re.fn)
         [] re.op = "decorate" -> decorateOne(st, re.ch, re.fn)
         [] re.op = "removeDecorator" -> removeDecoratorOne(st, re.ch.name, re.fn)
         [] OTHER -> st

\* the code an attempt runs: factories, wrappers, the subscriber, error hooks
UserCode == {"factory", "pre", "sub", "decHook", "subHook", "onError"}

\* what each function does, for every function of the program
Total(kinds) == [f \in Fns |-> IF f \in DOMAIN kinds THEN kinds[f] ELSE "ret"]

\* the behaviours of functions explored with registration during a call
ReentrantKinds == {"ret", "throwObj", "pass"}
ReentrantKindChoices(ch) ==
    {kinds \in KindChoices(ch) : \A f \in DOMAIN kinds : kinds[f] \in ReentrantKinds}

\* Lists read from the tables again at every attempt
Lists_Live(run) ==
    [subscribers |-> Reverse(callSubscribers(run.ch)),
     decorations |-> callDecorations(run.ch)]

\* the local variables `subscribers` (after reverse()) and `decorations` of
\* call(), assigned once before the first attempt
Lists(run) == [subscribers |-> run.subscribers, decorations |-> run.decorations]

\* call(channel, args, onError) up to its first attempt
BeginCall(ch, onError, kinds) ==
    LET subscribers == callSubscribers(ch)
        decorations == callDecorations(ch)
        plain == call(ch, onError, kinds)
        run == [op |-> "running", ch |-> ch, onError |-> onError, kinds |-> kinds,
                outcome |-> "pending", value |-> Undefined, log |-> <<>>,
                subscribers |-> Reverse(subscribers), decorations |-> decorations,
                k |-> 1, reentries |-> <<>>, plain |-> plain]
    IN /\ Idle
       /\ res' = IF Len(subscribers) = 0
                 THEN [run EXCEPT !.op = "reentrantCall", !.outcome = "noImplementation"]
                 ELSE run
       /\ UNCHANGED hostVars

\* one turn of subscribers.reverse().some(...), in which the code that runs
\* makes the API call re
Attempt(re) ==
    LET lists == Lists(res)
        k == res.k
        over == k > Len(lists.subscribers)
        out == IF over THEN [outcome |-> "ret", value |-> Undefined, log |-> res.log]
               ELSE attempts(<<lists.subscribers[k]>>, lists.decorations, res.onError,
                             Total(res.kinds), k, res.log)
        ran == {out.log[i].e : i \in (Len(res.log) + 1)..Len(out.log)}
        failed == /\ ~over
                  /\ out.log # <<>>
                  /\ out.log[Len(out.log)].e = "subscriberError"
                  /\ out.log[Len(out.log)].k = k
        more == failed /\ k < Len(lists.subscribers)
        st == reenter(re)
    IN /\ res.op = "running"
       /\ re = NoReentry \/ ran \cap UserCode # {}
       /\ res' = [res EXCEPT
                    !.op = IF more THEN "running" ELSE "reentrantCall",
                    !.outcome = IF more THEN "pending" ELSE out.outcome,
                    !.value = IF more \/ failed THEN Undefined ELSE out.value,
                    !.log = out.log,
                    !.k = k + 1,
                    !.reentries = IF re = NoReentry THEN @
                                  ELSE Append(@, [k |-> k, re |-> re])]
       /\ ids' = st.ids
       /\ channels' = st.channels
       /\ decorators' = st.decorators
       /\ descriptors' = st.descriptors
       /\ identified' = st.identified
       /\ nops' = Counted

\* the next call() on the same channel, after the first has returned; every
\* function behaves as it did in the first call
NextCall ==
    LET kinds == Total(res.kinds)
        out == call(res.ch, res.onError, kinds)
    IN /\ res.op = "reentrantCall"
       /\ res' = [op |-> "nextCall", ch |-> res.ch, onError |-> res.onError,
                  kinds |-> kinds, outcome |-> out.outcome, value |-> out.value,
                  log |-> out.log,
                  first |-> [subscribers |-> res.subscribers,
                             reentries |-> res.reentries,
                             attempts |-> res.k - 1]]
       /\ UNCHANGED hostVars

\* ============================================================ application
\* src/app.js: the lifecycle manager.  Its facade methods are dispatched by
\* call() to their one subscriber with bus.emit("error") as error callback,
\* which rethrows when nothing listens: a method that throws raises to the
\* caller.

\* Number of manager API calls that change its state in one behaviour.
MaxAppOps == 4

\* component definitions handed to addComponent ("" = no version field)
Def(n, v, off, req) == [name |-> n, version |-> v, offers |-> off, requires |-> req]
Defs ==
    {Def("a", NoVer, <<"X">>, <<>>), Def("a", "2.0.0", <<>>, <<>>),
     Def("b", NoVer, <<"Y">>, <<"X">>), Def("c", NoVer, <<"X">>, <<"Y">>),
     Def("d", NoVer, <<>>, <<"Y">>)}
NoDef == Def("", NoVer, <<>>, <<>>)

\* What a creation function does when it is invoked: return nothing
\* ("plain": the instance is {}), return an instance with init and destroy
\* methods ("hooks"), throw ("createThrows"), return an instance whose init
\* throws ("initThrows"), or one whose destroy throws ("badDestroy").
CreateKinds == {"plain", "hooks", "createThrows", "initThrows", "badDestroy"}

Api(kind) ==
    CASE kind = "hooks" -> [init |-> "ok", destroy |-> "ok"]
      [] kind = "initThrows" -> [init |-> "throws", destroy |-> "ok"]
      [] kind = "badDestroy" -> [init |-> "none", destroy |-> "throws"]
      [] OTHER -> [init |-> "none", destroy |-> "none"]

VARIABLES
    components,       \* app.js:9 components: name -> version -> definition
    toBeInitialized,  \* app.js:11 the init queue
    graph,            \* app.js:12 the dependency graph
    appInitialized,   \* app.js:7
    instances,        \* app.js:7 instances: undefined until init(), then name -> record
    destroyed,        \* app.js:64 host.destroy() has run
    aops,             \* history: number of state-changing manager calls so far
    added,            \* history: (name, version) accepted by addComponent, not removed since
    readyCount,       \* history: number of app/ready notifications published so far
    created,          \* history: registered (name, version) created since their registration
    ares              \* the last manager call and what it produced

appState == <<components, toBeInitialized, graph, appInitialized, instances, destroyed>>
appVars == <<components, toBeInitialized, graph, appInitialized, instances, destroyed,
             aops, added, readyCount, created, ares>>
vars == <<ids, channels, decorators, descriptors, identified, nops, res,
          components, toBeInitialized, graph, appInitialized, instances, destroyed,
          aops, added, readyCount, created, ares>>

\* -------------------------------------------------------- dependency graph
\* DepGraph of the dependency-graph package as app.js uses it
EmptyGraph == [nodes |-> <<>>, outgoingEdges |-> <<>>, incomingEdges |-> <<>>]

InSeq(x, seq) == \E i \in DOMAIN seq : seq[i] = x
Push(seq, x) == IF InSeq(x, seq) THEN seq ELSE Append(seq, x)

hasNode(g, node) == InSeq(node, g.nodes)

addNode(g, node) ==
    IF hasNode(g, node) THEN g
    ELSE [nodes |-> Append(g.nodes, node),
          outgoingEdges |-> (node :> <<>>) @@ g.outgoingEdges,
          incomingEdges |-> (node :> <<>>) @@ g.incomingEdges]

\* addDependency(from, to): from depends on to
addDependency(g, from, to) ==
    [g EXCEPT !.outgoingEdges[from] = Push(@, to), !.incomingEdges[to] = Push(@, from)]

\* the nodes reachable from a set of nodes along one or more edges
RECURSIVE ReachFrom(_, _, _)
ReachFrom(g, frontier, seen) ==
    LET nxt == UNION {{g.outgoingEdges[n][i] : i \in DOMAIN g.outgoingEdges[n]} :
                      n \in frontier}
    IN IF nxt \subseteq seen THEN seen ELSE ReachFrom(g, nxt \ seen, seen \cup nxt)

\* overallOrder() throws "Dependency Cycle Found"
HasCycle(g) == \E i \in DOMAIN g.nodes : g.nodes[i] \in ReachFrom(g, {g.nodes[i]}, {})

\* the depth-first search of overallOrder(): dependencies first, then the node
RECURSIVE DFS(_, _, _), DFSAll(_, _, _)
DFS(g, node, result) ==
    IF InSeq(node, result) THEN result
    ELSE Push(DFSAll(g, g.outgoingEdges[node], result), node)

DFSAll(g, nodes, result) ==
    IF nodes = <<>> THEN result
    ELSE DFSAll(g, Tail(nodes), DFS(g, Head(nodes), result))

\* overallOrder() of a graph without cycle: the search is started from every
\* node nothing depends on, in insertion order
overallOrder(g) ==
    DFSAll(g, SelectSeq(g.nodes, LAMBDA n : g.incomingEdges[n] = <<>>), <<>>)

\* ------------------------------------------------------------- components
getInterfaceKey(name) == <<"if", name, "">>

getComponentKey(component) ==
    <<"comp", component.name,
      IF component.version = NoVer THEN "1.0.0" ELSE component.version>>

isComponentKey(key) == key[1] = "comp"

\* A lookup by name alone
hasComponent_AnyVersion(comps, name, version) == name \in DOMAIN comps

\* A lookup that finds nothing without a version argument
hasComponent_ExplicitVersionOnly(comps, name, version) ==
    version # NoVer /\ name \in DOMAIN comps /\ version \in DOMAIN comps[name]

\* hasComponent(name, version): version "" is no (or a falsy) version argument
hasComponent(comps, name, version) ==
    name \in DOMAIN comps /\ (version # NoVer => version \in DOMAIN comps[name])

\* the sort of sortByDependencies: by position in order, stable
RECURSIVE InsertByOrder(_, _, _)
InsertByOrder(sorted, x, order) ==
    IF sorted = <<>> THEN <<x>>
    ELSE IF indexOf(order, getComponentKey(Head(sorted))) > indexOf(order, getComponentKey(x))
         THEN <<x>> \o sorted
    ELSE <<Head(sorted)>> \o InsertByOrder(Tail(sorted), x, order)

RECURSIVE SortByOrder(_, _)
SortByOrder(seq, order) ==
    IF seq = <<>> THEN <<>>
    ELSE InsertByOrder(SortByOrder(SubSeq(seq, 1, Len(seq) - 1), order), seq[Len(seq)], order)

\* A queue left in the order the components were added
sortByDependencies_Unsorted(g, toBeSorted) == toBeSorted

\* sortByDependencies(toBeSorted), for a graph without cycle
sortByDependencies(g, toBeSorted) ==
    SortByOrder(toBeSorted, SelectSeq(overallOrder(g), isComponentKey))

\* events of a manager call: published notifications and invoked user code
AEv(e, component) == [e |-> e, def |-> component]

\* history: the (name, version) pairs whose creation function a trace invokes
CreatedIn(log) ==
    {<<log[i].def.name,
       IF log[i].def.version = NoVer THEN "1.0.0" ELSE log[i].def.version>> :
       i \in {j \in DOMAIN log : log[j].e = "create"}}

Thrown(st, component) ==
    [Logged(st, <<AEv("throw", component)>>) EXCEPT !.thrown = TRUE]

\* initComponent(component); st carries the instance records and the trace
initComponent(component, kind, st) ==
    LET st1 == Logged(st, <<AEv("create", component)>>)
        st2 == [Logged(st1, <<AEv("app/initComponent", component)>>)
                  EXCEPT !.instances = (component.name :> Api(kind)) @@ @]
        st3 == Logged(st2, <<AEv("initHook", component)>>)
    IN IF kind = "createThrows" THEN Thrown(st1, component)
       ELSE IF Api(kind).init = "none" THEN st2
       ELSE IF Api(kind).init = "throws" THEN Thrown(st3, component)
       ELSE st3

\* A loop body without the try/catch
tryInitComponent_NoCatch(component, kind, st) == initComponent(component, kind, st)

\* the body of init()'s forEach: try { initComponent } catch { publish }
tryInitComponent(component, kind, st) ==
    LET r == initComponent(component, kind, st)
    IN IF r.thrown
       THEN [Logged(r, <<AEv("app/componentInitError", component),
                         AEv("app/error", component)>>) EXCEPT !.thrown = FALSE]
       ELSE r

\* forEach over the sorted queue; an exception leaving the body ends it
RECURSIVE initAll(_, _, _, _)
initAll(queue, kinds, i, st) ==
    IF i > Len(queue) \/ st.thrown THEN st
    ELSE initAll(queue, kinds, i + 1, tryInitComponent(queue[i], kinds[i], st))

RECURSIVE addOffers(_, _, _)
addOffers(g, key, offers) ==
    IF offers = <<>> THEN g
    ELSE addOffers(addDependency(addNode(g, getInterfaceKey(Head(offers))),
                                 getInterfaceKey(Head(offers)), key),
                   key, Tail(offers))

RECURSIVE addRequires(_, _, _)
addRequires(g, key, requires) ==
    IF requires = <<>> THEN g
    ELSE addRequires(addDependency(addNode(g, getInterfaceKey(Head(requires))),
                                   key, getInterfaceKey(Head(requires))),
                     key, Tail(requires))

\* the call, the lifecycle state it was made in, and what it produced
AResult(op, component, outcome, log) ==
    [op |-> op, def |-> component, outcome |-> outcome, log |-> log,
     was |-> [appInitialized |-> appInitialized, destroyed |-> destroyed]]

\* history: a manager call that changed the manager's state is counted
ACounted == IF appState' = appState THEN aops ELSE aops + 1

NoState == [instances |-> <<>>, log |-> <<>>, thrown |-> FALSE]

\* An init() without the appInitialized guard
AppInit_Reentrant(kinds) ==
    LET sorted == sortByDependencies(graph, toBeInitialized)
        ks == IF Len(kinds) = Len(sorted) THEN kinds
              ELSE [i \in 1..Len(sorted) |-> "plain"]
        r == initAll(sorted, ks, 1, NoState)
    IN /\ aops < MaxAppOps
       /\ UNCHANGED <<components, graph, destroyed, added>>
       /\ IF destroyed
          THEN /\ UNCHANGED <<toBeInitialized, appInitialized, instances>>
               /\ ares' = AResult("init", NoDef, "raise", <<>>)
          ELSE IF HasCycle(graph)
          THEN /\ appInitialized' = TRUE
               /\ instances' = [defined |-> TRUE, api |-> <<>>]
               /\ UNCHANGED toBeInitialized
               /\ ares' = AResult("init", NoDef, "raise", <<>>)
          ELSE /\ appInitialized' = TRUE
               /\ instances' = [defined |-> TRUE, api |-> r.instances]
               /\ toBeInitialized' = IF r.thrown THEN sorted ELSE <<>>
               /\ ares' = IF r.thrown
                          THEN AResult("init", NoDef, "raise", r.log)
                          ELSE AResult("init", NoDef, "ok",
                                       r.log \o <<AEv("app/ready", NoDef)>>)
       /\ readyCount' = readyCount
              + Cardinality({i \in DOMAIN ares'.log : ares'.log[i].e = "app/ready"})
       /\ created' = (created \cup CreatedIn(ares'.log)) \cap added'
       /\ aops' = ACounted

\* init(); kinds[i] is what the creation function of the i-th component of
\* the sorted queue does
AppInit(kinds) ==
    LET sorted == sortByDependencies(graph, toBeInitialized)
        r == initAll(sorted, kinds, 1, NoState)
    IN /\ aops < MaxAppOps
       /\ UNCHANGED <<components, graph, destroyed, added>>
       /\ IF destroyed
          THEN /\ UNCHANGED <<toBeInitialized, appInitialized, instances>>
               /\ ares' = AResult("init", NoDef, "raise", <<>>)
          ELSE IF appInitialized
          THEN /\ UNCHANGED <<toBeInitialized, appInitialized, instances>>
               /\ ares' = AResult("init", NoDef, "ok", <<>>)
          ELSE IF HasCycle(graph)
          THEN /\ appInitialized' = TRUE
               /\ instances' = [defined |-> TRUE, api |-> <<>>]
               /\ UNCHANGED toBeInitialized
               /\ ares' = AResult("init", NoDef, "raise", <<>>)
          ELSE /\ appInitialized' = TRUE
               /\ instances' = [defined |-> TRUE, api |-> r.instances]
               /\ toBeInitialized' = IF r.thrown THEN sorted ELSE <<>>
               /\ ares' = IF r.thrown
                          THEN AResult("init", NoDef, "raise", r.log)
                          ELSE AResult("init", NoDef, "ok",
                                       r.log \o <<AEv("app/ready", NoDef)>>)
       /\ readyCount' = readyCount
              + Cardinality({i \in DOMAIN ares'.log : ares'.log[i].e = "app/ready"})
       /\ created' = (created \cup CreatedIn(ares'.log)) \cap added'
       /\ aops' = ACounted

\* An addComponent that queues the component whether or not init() has run
AddComponent_AlwaysQueued(component, kind) ==
    LET name == component.name
        version == IF component.version = NoVer THEN "1.0.0" ELSE component.version
        key == getComponentKey(component)
        comps1 == IF name \in DOMAIN components THEN components
                  ELSE (name :> <<>>) @@ components
        g == addRequires(addOffers(addNode(graph, key), key, component.offers),
                         key, component.requires)
    IN /\ aops < MaxAppOps
       /\ UNCHANGED <<appInitialized, destroyed, readyCount, created>>
       /\ IF destroyed \/ hasComponent(components, name, component.version)
          THEN /\ UNCHANGED <<components, graph, toBeInitialized, instances, added>>
               /\ ares' = AResult("addComponent", component, "raise", <<>>)
          ELSE /\ components' = [comps1 EXCEPT ![name] = (version :> component) @@ @]
               /\ added' = added \cup {<<name, version>>}
               /\ graph' = g
               /\ toBeInitialized' = Append(toBeInitialized, component)
               /\ UNCHANGED instances
               /\ ares' = AResult("addComponent", component, "ok",
                                  <<AEv("app/componentAdded", component)>>)
       /\ aops' = ACounted

\* addComponent(component); kind is what its creation function does if it is
\* invoked
AddComponent(component, kind) ==
    LET name == component.name
        version == IF component.version = NoVer THEN "1.0.0" ELSE component.version
        key == getComponentKey(component)
        comps1 == IF name \in DOMAIN components THEN components
                  ELSE (name :> <<>>) @@ components
        g == addRequires(addOffers(addNode(graph, key), key, component.offers),
                         key, component.requires)
        r == initComponent(component, kind,
                           [instances |-> instances.api, log |-> <<>>, thrown |-> FALSE])
    IN /\ aops < MaxAppOps
       /\ UNCHANGED <<appInitialized, destroyed, readyCount>>
       /\ IF destroyed \/ hasComponent(components, name, component.version)
          THEN /\ UNCHANGED <<components, graph, toBeInitialized, instances, added>>
               /\ ares' = AResult("addComponent", component, "raise", <<>>)
          ELSE /\ components' = [comps1 EXCEPT ![name] = (version :> component) @@ @]
               /\ added' = added \cup {<<name, version>>}
               /\ graph' = g
               /\ IF appInitialized
                  THEN /\ instances' = [instances EXCEPT !.api = r.instances]
                       /\ UNCHANGED toBeInitialized
                       /\ ares' = IF r.thrown
                                  THEN AResult("addComponent", component, "raise", r.log)
                                  ELSE AResult("addComponent", component, "ok",
                                               r.log \o <<AEv("app/componentAdded", component)>>)
                  ELSE /\ toBeInitialized' = Append(toBeInitialized, component)
                       /\ UNCHANGED instances
                       /\ ares' = AResult("addComponent", component, "ok",
                                          <<AEv("app/componentAdded", component)>>)
       /\ created' = (created \cup CreatedIn(ares'.log)) \cap added'
       /\ aops' = ACounted

\* A teardown whose failure is published on app/error only
tryDestroy_NoNotification(component, inst) ==
    <<AEv("destroy", component)>>
    \o (IF inst.destroy = "throws"
        THEN <<AEv("throw", component), AEv("app/error", component)>>
        ELSE <<>>)

\* the try/catch around instance.destroy() in removeComponent: the trace of
\* the teardown of an instance that has a destroy method
tryDestroy(component, inst) ==
    <<AEv("destroy", component)>>
    \o (IF inst.destroy = "throws"
        THEN <<AEv("throw", component),
               AEv("app/componentDestroyError", component),
               AEv("app/error", component)>>
        ELSE <<>>)

\* removeComponent(component)
RemoveComponent(component) ==
    LET name == component.name
        version == IF component.version = NoVer THEN "1.0.0" ELSE component.version
        live == name \in DOMAIN instances.api /\ instances.api[name].destroy # "none"
        teardown == IF ~live THEN <<>> ELSE tryDestroy(component, instances.api[name])
    IN /\ aops < MaxAppOps
       /\ UNCHANGED <<toBeInitialized, graph, appInitialized, destroyed, readyCount>>
       /\ IF destroyed
          THEN /\ UNCHANGED <<components, instances, added>>
               /\ ares' = AResult("removeComponent", component, "raise", <<>>)
          ELSE IF name \notin DOMAIN components
          THEN /\ UNCHANGED <<components, instances>>
               /\ added' = added \ {<<name, version>>}
               /\ ares' = AResult("removeComponent", component, "ok", <<>>)
          ELSE IF ~instances.defined
          THEN \* TypeError: `in` applied to undefined
               /\ UNCHANGED <<components, instances, added>>
               /\ ares' = AResult("removeComponent", component, "raise", <<>>)
          ELSE /\ added' = added \ {<<name, version>>}
               /\ instances' = IF live
                               THEN [instances EXCEPT !.api =
                                       [n \in DOMAIN @ \ {name} |-> @[n]]]
                               ELSE instances
               /\ components' = [components EXCEPT ![name] =
                                   [v \in DOMAIN @ \ {version} |-> @[v]]]
               /\ ares' = AResult("removeComponent", component, "ok",
                                  teardown \o <<AEv("app/componentRemoved", component)>>)
       /\ created' = created \cap added'
       /\ aops' = ACounted

\* destroy(): components[key] is the version map of a name and has no name
\* of its own, so each removeComponent(components[key]) returns at once
AppDestroy ==
    /\ aops < MaxAppOps
    /\ UNCHANGED <<components, toBeInitialized, graph, instances, added, readyCount, created>>
    /\ IF destroyed
       THEN /\ UNCHANGED <<appInitialized, destroyed>>
            /\ ares' = AResult("destroy", NoDef, "raise", <<>>)
       ELSE IF ~appInitialized
       THEN /\ UNCHANGED <<appInitialized, destroyed>>
            /\ ares' = AResult("destroy", NoDef, "ok", <<>>)
       ELSE /\ appInitialized' = FALSE
            /\ destroyed' = TRUE
            /\ ares' = AResult("destroy", NoDef, "ok", <<>>)
    /\ aops' = ACounted

\* the queue init() would work through, and the creation functions' choices
InitKinds ==
    IF destroyed \/ appInitialized \/ HasCycle(graph) THEN {<<>>}
    ELSE [1..Len(toBeInitialized) -> CreateKinds]

AddKinds(component) ==
    IF appInitialized /\ ~destroyed /\ ~hasComponent(components, component.name, component.version)
    THEN CreateKinds ELSE {"plain"}

\* ------------------------------------------------------------------- spec
Init ==
    /\ ids = [h \in Hashes |-> <<>>]
    /\ channels = <<>>
    /\ decorators = <<>>
    /\ descriptors = <<>>
    /\ identified = [f \in Fns |-> {}]
    /\ nops = 0
    /\ res = NoCall
    /\ components = <<>>
    /\ toBeInitialized = <<>>
    /\ graph = EmptyGraph
    /\ appInitialized = FALSE
    /\ instances = [defined |-> FALSE, api |-> <<>>]
    /\ destroyed = FALSE
    /\ aops = 0
    /\ added = {}
    /\ readyCount = 0
    /\ created = {}
    /\ ares = [op |-> "none", def |-> NoDef, outcome |-> "ok", log |-> <<>>,
               was |-> [appInitialized |-> FALSE, destroyed |-> FALSE]]

DoConnect ==
    /\ \E in \in ConnectInputs : Connect(in[1], in[2], ConfigOf(in[2]))
    /\ UNCHANGED appVars
DoDisconnect ==
    /\ \E in \in DisconnectInputs : Disconnect(in[1], in[2])
    /\ UNCHANGED appVars
DoDecorate ==
    /\ \E in \in DecorateInputs : Decorate(in[1], in[2], ConfigOf(in[2]))
    /\ UNCHANGED appVars
DoRemoveDecorator ==
    /\ \E in \in RemoveInputs : RemoveDecorator(in[1], in[2])
    /\ UNCHANGED appVars
DoCall ==
    /\ Idle
    /\ \E in \in CallInputs :
         \E kinds \in KindChoices(in[1]) : Call(in[1], in[2], kinds)
    /\ UNCHANGED appVars

Next == DoConnect \/ DoDisconnect \/ DoDecorate \/ DoRemoveDecorator \/ DoCall

\* the plugin host
Spec == Init /\ [][Next]_vars

DoAddComponent ==
    /\ \E component \in Defs : \E kind \in AddKinds(component) : AddComponent(component, kind)
    /\ UNCHANGED <<hostVars, res>>
DoRemoveComponent ==
    /\ \E component \in Defs : RemoveComponent(component)
    /\ UNCHANGED <<hostVars, res>>
DoAppInit ==
    /\ \E kinds \in InitKinds : AppInit(kinds)
    /\ UNCHANGED <<hostVars, res>>
DoAppDestroy ==
    /\ AppDestroy
    /\ UNCHANGED <<hostVars, res>>

AppNext == DoAddComponent \/ DoRemoveComponent \/ DoAppInit \/ DoAppDestroy

\* the lifecycle manager
AppSpec == Init /\ [][AppNext]_vars

DoConnectInterface ==
    /\ \E iface \in IfaceDefs : ConnectInterface(iface)
    /\ UNCHANGED appVars
DoDisconnectInterface ==
    /\ \E iface \in IfaceDefs : DisconnectInterface(iface)
    /\ UNCHANGED appVars
DoChannelCall ==
    /\ Idle
    /\ \E in \in ChannelObjects :
         \E kinds \in KindChoices(in[1]) : ChannelCall(in[1], in[2], kinds)
    /\ UNCHANGED appVars

\* connect with every shape of version segment: none, a range, a partial
\* version, a full version, and a string that is no version
VersionSegments == {NoVer, "1.x", "2", "2.3.1", "abc"}
VersionedConnectInputs == {Chan("foo", v) : v \in VersionSegments} \X {"f1", "f3"}

DoConnectVersioned ==
    /\ \E in \in VersionedConnectInputs : Connect(in[1], in[2], ConfigOf(in[2]))
    /\ UNCHANGED appVars

VersionNext == DoConnectVersioned \/ DoDisconnect \/ DoCall

\* the plugin host, connected to under every shape of channel string
VersionSpec == Init /\ [][VersionNext]_vars

IfaceNext == DoConnectInterface \/ DoDisconnectInterface \/ DoChannelCall

\* the interface layer over the plugin host
IfaceSpec == Init /\ [][IfaceNext]_vars

\* registrations made before the call that is re-entered
SetupConnectInputs == {Chan("foo", NoVer)} \X Fns
SetupDecorateInputs == {<<Chan("foo", NoVer), "f1">>, <<Chan("*", NoVer), "f3">>}
DoSetupConnect ==
    /\ \E in \in SetupConnectInputs : Connect(in[1], in[2], ConfigOf(in[2]))
    /\ UNCHANGED appVars
DoSetupDecorate ==
    /\ \E in \in SetupDecorateInputs : Decorate(in[1], in[2], ConfigOf(in[2]))
    /\ UNCHANGED appVars
DoBeginCall ==
    /\ \E kinds \in ReentrantKindChoices(Chan("foo", NoVer)) :
         BeginCall(Chan("foo", NoVer), TRUE, kinds)
    /\ UNCHANGED appVars
DoAttempt ==
    /\ \E re \in Reentries : Attempt(re)
    /\ UNCHANGED appVars
DoNextCall ==
    /\ NextCall
    /\ UNCHANGED appVars

ReentrantNext == DoSetupConnect \/ DoSetupDecorate \/ DoBeginCall \/ DoAttempt \/ DoNextCall

\* a call during which the code it runs registers and unregisters
ReentrantSpec == Init /\ [][ReentrantNext]_vars

\* ------------------------------------------------- reading a call's trace
Log == res.log
IsCall == res.op = "call"

\* the events of kind e in attempt k, and those about registration id
At(e, k) == {i \in DOMAIN Log : Log[i].e = e /\ Log[i].k = k}
AtId(e, k, id) == {i \in At(e, k) : Log[i].id = id}
Attempts == {Log[i].k : i \in DOMAIN Log}

\* the candidates of the call in the order they are tried
Candidates == Reverse(callSubscribers(res.ch))

\* the function throws when it is invoked as a subscriber
Fails(fn) == AsSub(res.kinds[fn]) \in {"throwObj", "throwPrim"}

\* the decorator registration with this id among the call's decorations
DecoOf(id) ==
    LET d == callDecorations(res.ch)
    IN d[CHOOSE i \in DOMAIN d : d[i].id = id]

\* the registrations on channel ch that dispatch to fn
RegsOf(chans, descs, ch, fn) ==
    LET regs == Table(chans, normalizeChannelName(ch))
    IN {i \in DOMAIN regs : /\ regs[i].version = extractVersion(ch)
                            /\ descs[regs[i].id].fn = fn}

\* ------------------------------------------------------------------ claims
\* C1: a call returns the value of the highest-priority matching subscriber
\* that does not fail: candidates are tried by descending priority, and none
\* that comes after the first successful one is invoked.  (Stated for calls
\* whose decorators all pass the subscriber's value through.)
C1_HighestPriorityNonFailing ==
    (IsCall /\ res.outcome # "noImplementation") =>
        LET cands == Candidates
            decos == callDecorations(res.ch)
            good == {i \in DOMAIN cands : ~Fails(cands[i].fn)}
            first == CHOOSE i \in good : \A j \in good : i <= j
        IN /\ \A i, j \in DOMAIN cands :
                i < j => cands[i].config.priority >= cands[j].config.priority
           /\ \A k \in Attempts : At("sub", k) # {} => cands[k].fn = Log[CHOOSE i \in At("sub", k) : TRUE].fn
           /\ (good # {} /\ \A i \in DOMAIN decos : res.kinds[decos[i].fn] = "pass") =>
                /\ res.outcome = "ret"
                /\ res.value \in {SubVal(cands[first].fn), WrapperVal(cands[first].fn)}
                /\ \A k \in Attempts : k <= first

\* C2: a call on a channel with at least one matching subscriber never raises
\* to its caller, whichever decorators and subscribers fail, and returns
\* undefined when every candidate fails.
C2_CallNeverRaises ==
    (IsCall /\ Len(callSubscribers(res.ch)) > 0) =>
        /\ res.outcome = "ret"
        /\ (\A i \in DOMAIN Candidates : Fails(Candidates[i].fn)) => res.value = Undefined

C4_SubscriberFailureNeverSwallowed ==
    IsCall =>
      \A i \in DOMAIN Log :
        Log[i].e = "subThrow" =>
          LET k == Log[i].k
          IN /\ At("subscriberError", k) # {}
             /\ \A j \in At("decoratorError", k) : j < i
             /\ (k < Len(Candidates) => At("attempt", k + 1) # {})

\* C7: after connect(c, f), however often it has been called before, exactly
\* one subscriber registration of f exists on c.
C7_ConnectIsIdempotent ==
    [][\A in \in ConnectInputs :
         Connect(in[1], in[2], ConfigOf(in[2]))
           => Cardinality(RegsOf(channels', descriptors', in[1], in[2])) = 1]_vars

\* C8: a single disconnect(c, f) of a function registered on c leaves no
\* registration of f on c.
C8_DisconnectRemoves ==
    [][\A in \in DisconnectInputs :
         (/\ Cardinality(RegsOf(channels, descriptors, in[1], in[2])) = 1
          /\ Disconnect(in[1], in[2]))
           => RegsOf(channels', descriptors', in[1], in[2]) = {}]_vars

\* C9: every identification of a function yields the same id.
C9_StableIdentity == \A f \in Fns : Cardinality(identified[f]) <= 1

\* C10: for each candidate whose subscriber fails, its own error hook (when it
\* has one), the caller's error callback (when supplied) and subscriberError
\* fire exactly once each, before the next candidate is tried; for a candidate
\* whose subscriber does not fail none of them fires.
C10_FailureHooksOncePerFailedCandidate ==
    IsCall =>
      \A k \in Attempts :
        LET failed == At("subThrow", k) # {}
            sub == Candidates[k]
        IN /\ Cardinality(At("subscriberError", k)) = IF failed THEN 1 ELSE 0
           /\ Cardinality(At("onError", k)) = IF failed /\ res.onError THEN 1 ELSE 0
           /\ Cardinality(At("subHook", k))
                = IF failed /\ sub.config.onError THEN 1 ELSE 0
           /\ \A i \in At("subHook", k) \cup At("onError", k) \cup At("subscriberError", k) :
                \A j \in At("attempt", k + 1) : i < j

\* ------------------------------------------- reading a manager call's trace
ALog == ares.log
AAt(e, component) == {i \in DOMAIN ALog : ALog[i].e = e /\ ALog[i].def = component}

\* the definitions currently registered
Registered ==
    UNION {{components[n][v] : v \in DOMAIN components[n]} : n \in DOMAIN components}

\* init() was called on a manager that was neither initialized nor destroyed
\* and found no cycle
InitRan ==
    /\ ares.op = "init"
    /\ ~ares.was.appInitialized /\ ~ares.was.destroyed
    /\ ~HasCycle(graph)

\* A offers a capability that B requires
Provides(A, B) ==
    \E i \in DOMAIN A.offers, j \in DOMAIN B.requires : A.offers[i] = B.requires[j]

\* C5: for all registered components A and B where A offers a capability that
\* B requires (and the graph has no cycle), init() invokes the creation
\* function of A before that of B, in whatever order they were added.
C5_InitFollowsDependencies ==
    InitRan =>
      \A A, B \in Registered :
        Provides(A, B) =>
          /\ AAt("create", A) # {} /\ AAt("create", B) # {}
          /\ \A i \in AAt("create", A) \cup AAt("initHook", A), j \in AAt("create", B) : i < j

\* C5 witness: init() has created a provider before a component that
\* requires it although the provider was added later
C5_Witness ==
    /\ InitRan
    /\ \E A, B \in Registered :
         /\ Provides(A, B)
         /\ indexOf(graph.nodes, getComponentKey(B)) < indexOf(graph.nodes, getComponentKey(A))
         /\ \E i \in AAt("create", A), j \in AAt("create", B) : i < j

\* C6: in init() a component whose creation function or init hook throws does
\* not stop the others: init() returns, the creation function of every queued
\* component is invoked exactly once, every component that did not fail has an
\* instance record, app/componentInitError is published exactly once for each
\* failing component and for no other, and app/ready follows.
C6_InitIsolatesFailures ==
    InitRan =>
      /\ ares.outcome = "ok"
      /\ toBeInitialized = <<>>
      /\ \A c \in Registered :
           /\ Cardinality(AAt("create", c)) = 1
           /\ Cardinality(AAt("app/componentInitError", c)) = Cardinality(AAt("throw", c))
           /\ Cardinality(AAt("throw", c)) <= 1
           /\ (AAt("throw", c) = {}) => c.name \in DOMAIN instances.api
      /\ Len(ALog) > 0 /\ ALog[Len(ALog)].e = "app/ready"

\* C6 witness: init() returned after a component failed and a component
\* queued behind it was created and has its instance record
C6_Witness ==
    /\ InitRan /\ ares.outcome = "ok"
    /\ \E i, j \in DOMAIN ALog :
         /\ i < j
         /\ ALog[i].e = "throw" /\ ALog[j].e = "create"
         /\ AAt("throw", ALog[j].def) = {}
         /\ ALog[j].def.name \in DOMAIN instances.api

\* --------------------------------------------------------- C11 .. C13
\* the fixed version satisfies the range the call asks for: "2.3.1" is in
\* "2.x" and not in "1.x", "1.0.0" is in "1.x" (the default) and not in "2.x"
InRequestedRange(version, ch) ==
    \/ (ch.ver = NoVer /\ version = "1.0.0")
    \/ (ch.ver = "1.x" /\ version = "1.0.0")
    \/ (ch.ver = "2.x" /\ version = "2.3.1")

\* the ids of the registrations on the call's base channel that are in range
IdsInRange ==
    LET regs == Table(channels, res.ch.name)
    IN {regs[i].id : i \in {j \in DOMAIN regs : InRequestedRange(regs[j].version, res.ch)}}

\* C11: the candidates of a call are exactly the registrations on the base
\* channel whose version satisfies the requested range (1.x by default): no
\* other registration is attempted, every one of them is attempted when all
\* before it fail, and the call fails with no implementation exactly when
\* there is none.
C11_CandidatesAreTheRegistrationsInRange ==
    IsCall =>
      /\ (res.outcome = "noImplementation") <=> (IdsInRange = {})
      /\ {Candidates[i].id : i \in DOMAIN Candidates} = IdsInRange
      /\ Len(Candidates) = Cardinality(IdsInRange)
      /\ \A i \in DOMAIN Log :
           Log[i].e \in {"attempt", "sub"} => Log[i].id \in IdsInRange
      /\ (\A k \in Attempts : At("subscriberError", k) # {})
           => {Log[i].id : i \in {j \in DOMAIN Log : Log[j].e = "sub"}} = IdsInRange

\* C11 witness: a call that tried every registration in range while the
\* channel also holds a registration out of range
C11_Witness ==
    /\ IsCall /\ Attempts # {}
    /\ \A k \in Attempts : At("subscriberError", k) # {}
    /\ Cardinality(IdsInRange) >= 1
    /\ Len(Table(channels, res.ch.name)) > Cardinality(IdsInRange)

\* the decorator's range admits the candidate's fixed version
DecoratorInRange(version, range) ==
    \/ (range = "1.x" /\ version = "1.0.0")
    \/ (range = "2.x" /\ version = "2.3.1")

\* the ids of the decorators attempt k has to apply: those of the call's
\* channel whose range admits the candidate's version, and the wildcard ones
DecoratorsFor(k) ==
    LET scoped == Table(decorators, res.ch.name)
        wild == Table(decorators, "*")
    IN {scoped[i].id : i \in {j \in DOMAIN scoped :
                                DecoratorInRange(Candidates[k].version, scoped[j].version)}}
       \cup {wild[i].id : i \in DOMAIN wild}

AllDecoratorRegs ==
    UNION {{<<n, decorators[n][i].id>> : i \in DOMAIN decorators[n]} : n \in DOMAIN decorators}

\* C12: in every attempt (of a call that no decorator factory aborts) the
\* decorators materialized and applied are exactly the decorators of the
\* call's channel whose range admits the candidate's version plus every
\* wildcard decorator; decorators of other channels or out of range are not.
C12_DecoratorsOfAnAttempt ==
    (IsCall /\ res.outcome # "raise") =>
      \A k \in Attempts :
        /\ {Log[i].id : i \in At("factory", k)} = DecoratorsFor(k)
        /\ {Log[i].id : i \in At("pre", k) \cup At("decThrow", k)} = DecoratorsFor(k)

\* C12 witness: an attempt that applied a decorator while a decorator of
\* another channel or out of range was registered
C12_Witness ==
    /\ IsCall /\ res.outcome = "ret"
    /\ \E k \in Attempts :
         /\ At("pre", k) # {}
         /\ Cardinality(AllDecoratorRegs) > Cardinality(DecoratorsFor(k))

\* the priority a decorator was registered with
PriorityOf(id) == DecoOf(id).config.priority

\* C13: decorators nest by ascending priority from the outside in: of two
\* decorators applied to an attempt the one with the lower priority runs its
\* pre-call code first and its post-call code last, and the subscriber runs
\* after every pre-call code and before every post-call code.
C13_DecoratorsNestByPriority ==
    IsCall =>
      \A k \in Attempts :
        /\ \A i, j \in At("pre", k) :
             PriorityOf(Log[i].id) < PriorityOf(Log[j].id) =>
               /\ i < j
               /\ \A p \in AtId("post", k, Log[i].id), q \in AtId("post", k, Log[j].id) : q < p
        /\ \A s \in At("sub", k) :
             /\ \A i \in At("pre", k) : i < s
             /\ \A p \in At("post", k) : s < p

\* C13 witness: an attempt in which two decorators of different priority both
\* ran their pre-call and post-call code around the subscriber
C13_Witness ==
    /\ IsCall
    /\ \E k \in Attempts :
         \E i, j \in At("pre", k) :
           /\ PriorityOf(Log[i].id) < PriorityOf(Log[j].id)
           /\ AtId("post", k, Log[i].id) # {} /\ AtId("post", k, Log[j].id) # {}
           /\ At("sub", k) # {}

\* --------------------------------------------------------- C14 .. C20
CompNames == {c.name : c \in Defs}
CompVersions == {"1.0.0", "2.0.0"}

\* C14: hasComponent(name, version) is true exactly for the (name, version)
\* pairs that addComponent accepted and removeComponent has not removed since.
C14_HasComponentReflectsRegistrations ==
    \A n \in CompNames, v \in CompVersions :
      hasComponent(components, n, v) <=> <<n, v>> \in added

\* C14 witness: a pair was added and removed again while another version of
\* the same name is still registered
C14_Witness ==
    /\ ares.op = "removeComponent" /\ ares.outcome = "ok"
    /\ \E n \in CompNames, v, w \in CompVersions :
         /\ v # w
         /\ ares.def.name = n
         /\ ~hasComponent(components, n, v) /\ <<n, v>> \notin added
         /\ hasComponent(components, n, w) /\ <<n, w>> \in added
         /\ \E i \in DOMAIN ALog : ALog[i].e = "app/componentRemoved"

\* the (name, version) pair a definition registers
PairOf(c) == <<c.name, IF c.version = NoVer THEN "1.0.0" ELSE c.version>>

\* C15: addComponent(def) on a live manager raises when def's (name, version)
\* (version 1.0.0 when def has none) is currently registered, changes neither
\* the registered components, the graph nor the init queue, and publishes
\* nothing.
C15_DuplicateIsRejected ==
    [][\A c \in Defs :
         (/\ PairOf(c) \in added /\ ~destroyed
          /\ ares'.op = "addComponent" /\ ares'.def = c)
           => /\ ares'.outcome = "raise"
              /\ ares'.log = <<>>
              /\ UNCHANGED <<components, graph, toBeInitialized, instances, added>>]_vars

\* C15 witness: an addComponent of a registered pair has raised
C15_Witness ==
    /\ ares.op = "addComponent" /\ ares.outcome = "raise" /\ ares.log = <<>>
    /\ ~destroyed
    /\ PairOf(ares.def) \in added
    /\ hasComponent(components, ares.def.name, PairOf(ares.def)[2])

\* the positions of event e in a trace
EventsIn(log, e) == {i \in DOMAIN log : log[i].e = e}

\* C16: destroy() on an initialized manager removes every registered
\* component: afterwards nothing is registered, the teardown hook of every
\* live instance that has one was invoked exactly once, and one removal
\* notification was published for each registered component.
C16_DestroyRemovesEveryComponent ==
    [][(ares'.op = "destroy" /\ appInitialized /\ ~destroyed)
         => /\ \A n \in CompNames, v \in CompVersions :
                 ~hasComponent(components', n, v)
            /\ \A n \in DOMAIN instances.api :
                 instances.api[n].destroy # "none"
                   => Cardinality({i \in EventsIn(ares'.log, "destroy") :
                                     ares'.log[i].def.name = n}) = 1
            /\ \A c \in Registered :
                 Cardinality({i \in EventsIn(ares'.log, "app/componentRemoved") :
                                ares'.log[i].def = c}) = 1]_vars

\* removeComponent(def) invoked a teardown hook that threw
TeardownFailed ==
    /\ ares.op = "removeComponent"
    /\ EventsIn(ALog, "destroy") # {}
    /\ AAt("throw", ares.def) # {}

\* C17: when the teardown hook of the instance throws, removeComponent does
\* not raise: it publishes exactly one app/componentDestroyError, drops the
\* instance record, unregisters the component and then publishes
\* app/componentRemoved.
C17_FailingTeardownIsContained ==
    TeardownFailed =>
      /\ ares.outcome = "ok"
      /\ Cardinality(EventsIn(ALog, "destroy")) = 1
      /\ Cardinality(EventsIn(ALog, "app/componentDestroyError")) = 1
      /\ ares.def.name \notin DOMAIN instances.api
      /\ ~hasComponent(components, ares.def.name, PairOf(ares.def)[2])
      /\ PairOf(ares.def) \notin added
      /\ Cardinality(AAt("app/componentRemoved", ares.def)) = 1
      /\ \A i \in EventsIn(ALog, "app/componentDestroyError"),
            j \in AAt("app/componentRemoved", ares.def) : i < j

\* C17 witness: a removeComponent whose teardown threw has returned
C17_Witness ==
    /\ TeardownFailed
    /\ ares.outcome = "ok"
    /\ ares.was.appInitialized
    /\ AAt("app/componentDestroyError", ares.def) # {}
    /\ AAt("app/componentRemoved", ares.def) # {}

\* C18: when addComponent is called on an initialized manager and the
\* component's creation function or init hook throws, the failure is caught:
\* addComponent returns and one app/componentInitError is published.
C18_AddAfterInitContainsFailures ==
    (/\ ares.op = "addComponent"
     /\ ares.was.appInitialized /\ ~ares.was.destroyed
     /\ AAt("throw", ares.def) # {})
      => /\ ares.outcome = "ok"
         /\ Cardinality(AAt("app/componentInitError", ares.def)) = 1

\* C19: init() on a manager that is already initialized has no effect: it
\* returns, invokes no creation function or init hook, publishes nothing and
\* leaves the manager's state as it was.
C19_InitIsIdempotent ==
    [][(ares'.op = "init" /\ appInitialized /\ ~destroyed)
         => /\ ares'.outcome = "ok"
            /\ ares'.log = <<>>
            /\ UNCHANGED appState]_vars

\* C19 witness: a second init() has returned on a manager whose first init()
\* created instances
C19_Witness ==
    /\ ares.op = "init" /\ ares.outcome = "ok" /\ ares.log = <<>>
    /\ ares.was.appInitialized /\ ~ares.was.destroyed
    /\ instances.api # <<>>
    /\ toBeInitialized = <<>>

\* C20: app/ready is published at most once over the lifetime of a manager;
\* whenever init() has returned it has been published exactly once, and every
\* component that was queued when init() was called had its creation function
\* invoked before it.
C20_ReadyOnceAfterAllAttempts ==
    /\ [](readyCount <= 1)
    /\ []((ares.op = "init" /\ ares.outcome = "ok") => readyCount = 1)
    /\ [][(ares'.op = "init" /\ ares'.outcome = "ok")
            => \A q \in DOMAIN toBeInitialized :
                 \E i \in EventsIn(ares'.log, "create"),
                    j \in EventsIn(ares'.log, "app/ready") :
                   ares'.log[i].def = toBeInitialized[q] /\ i < j]_vars

\* the step registers the (name, version) pair of the definition it was given
Adds(c) ==
    /\ ares'.op = "addComponent" /\ ares'.def = c
    /\ PairOf(c) \notin added /\ PairOf(c) \in added'

\* C21: an addComponent that registers a component before init() has run only
\* queues it and invokes no creation function; one that registers a component
\* after init() has run invokes the component's creation function once within
\* the call and queues nothing.  Creation functions are invoked by init() and
\* by such an addComponent only.
C21_QueuedBeforeInitImmediateAfter ==
    [][/\ \A c \in Defs :
            Adds(c) =>
              IF appInitialized
              THEN /\ Cardinality({i \in EventsIn(ares'.log, "create") :
                                     ares'.log[i].def = c}) = 1
                   /\ Cardinality(EventsIn(ares'.log, "create")) = 1
                   /\ UNCHANGED toBeInitialized
              ELSE /\ EventsIn(ares'.log, "create") = {}
                   /\ toBeInitialized' = Append(toBeInitialized, c)
                   /\ UNCHANGED instances
       /\ (ares' # ares /\ EventsIn(ares'.log, "create") # {})
            => \/ ares'.op = "init"
               \/ ares'.op = "addComponent" /\ appInitialized]_vars

\* C21 witness: a component was added after init() had created another one,
\* and its creation function was invoked within addComponent
C21_Witness ==
    /\ ares.op = "addComponent" /\ ares.outcome = "ok"
    /\ ares.was.appInitialized /\ ~ares.was.destroyed
    /\ AAt("create", ares.def) # {}
    /\ ares.def.name \in DOMAIN instances.api
    /\ \E n \in DOMAIN instances.api : n # ares.def.name
    /\ toBeInitialized = <<>>

\* C22: when the graph of the registered components has a cycle, init() on a
\* live manager on which no init() has succeeded raises, invokes no creation
\* function and publishes no app/ready.
C22_CycleFailsInit ==
    [][(/\ ares'.op = "init" /\ ares' # ares
        /\ ~destroyed /\ readyCount = 0
        /\ HasCycle(graph))
         => /\ ares'.outcome = "raise"
            /\ EventsIn(ares'.log, "create") = {}
            /\ EventsIn(ares'.log, "app/ready") = {}]_vars

\* fn is registered as a subscriber of the channel called name
RegisteredOn(chans, descs, name, fn) ==
    \E i \in DOMAIN Table(chans, name) : descs[Table(chans, name)[i].id].fn = fn

\* every implementation of the interface definition is registered
Connected(iface) ==
    \A i \in DOMAIN prefixProperties(iface) :
      RegisteredOn(channels, descriptors,
                   normalizeChannelName(prefixProperties(iface)[i].ch),
                   prefixProperties(iface)[i].fn)

\* C23: disconnectInterface(iface) on a connected interface definition leaves
\* none of its implementations registered on any of its mapped channels, the
\* channels whose method key embeds a version included.
C23_DisconnectInterfaceRestores ==
    [][\A iface \in IfaceDefs :
         (Connected(iface) /\ DisconnectInterface(iface))
           => \A i \in DOMAIN prefixProperties(iface) :
                ~RegisteredOn(channels', descriptors',
                              normalizeChannelName(prefixProperties(iface)[i].ch),
                              prefixProperties(iface)[i].fn)]_vars

\* C24: a method of an interface or facade, or channel(name).call, does what
\* call(name, args) does in the same state with the same functions: same
\* outcome, same value, and the same trace apart from the invocations of the
\* channel object's own error handler.
C24_ChannelCallIsCall ==
    res.op = "channelCall" =>
      LET out == call(res.ch, FALSE, res.kinds)
      IN /\ res.outcome = out.outcome
         /\ res.value = out.value
         /\ SelectSeq(res.log, LAMBDA ev : ev.e # "onError") = out.log

\* the decorator registrations under name ("*" for wildcard decorators) that
\* dispatch to fn
DecoRegsOf(decs, descs, name, fn) ==
    LET regs == Table(decs, name)
    IN {i \in DOMAIN regs : descs[regs[i].id].fn = fn}

\* C25: removeDecorator(c, d) of a decorator registered once on c (or as
\* wildcard) leaves no registration of d under c, so that no later call
\* applies it.
C25_RemoveDecoratorRemoves ==
    [][\A in \in RemoveInputs :
         (/\ Cardinality(DecoRegsOf(decorators, descriptors, in[1], in[2])) = 1
          /\ RemoveDecorator(in[1], in[2]))
           => DecoRegsOf(decorators', descriptors', in[1], in[2]) = {}]_vars

\* C26: after decorate(c, d), however often it has been called before,
\* exactly one decorator registration of d exists under c.
C26_DecorateIsIdempotent ==
    [][\A in \in DecorateInputs :
         Decorate(in[1], in[2], ConfigOf(in[2]))
           => Cardinality(DecoRegsOf(decorators', descriptors',
                                     normalizeChannelName(in[1]), in[2])) = 1]_vars

\* a version segment that is a fully resolved semantic version
IsFullVersion(ver) == ver # NoVer /\ semverCoerce(ver) = ver

\* C27: connect with a channel string whose version segment is present but is
\* not a fully resolved semantic version adds no subscriber registration and
\* no descriptor.
C27_ConnectRejectsPartialVersions ==
    [][\A in \in VersionedConnectInputs :
         (/\ in[1].ver # NoVer /\ ~IsFullVersion(in[1].ver)
          /\ Connect(in[1], in[2], ConfigOf(in[2])))
           => UNCHANGED <<channels, descriptors>>]_vars

\* C28: a call on a channel none of whose subscribers has a version in the
\* requested range raises the no-implementation error and invokes nothing:
\* no subscriber, no decorator factory, no wrapper, no error hook.
C28_NoImplementationRaises ==
    (IsCall /\ IdsInRange = {})
      => /\ res.outcome = "noImplementation"
         /\ Log = <<>>

\* C28 witness: the call found subscribers and decorators on its channel, none
\* of the subscribers in the requested range, and raised
C28_Witness ==
    /\ IsCall /\ res.outcome = "noImplementation" /\ Log = <<>>
    /\ Table(channels, res.ch.name) # <<>>
    /\ IdsInRange = {}
    /\ Len(callDecorations(res.ch)) > 0

\* C29: two distinct functions with identical source text (equal content
\* hash) never receive the same id, whichever of them was identified first
\* and however often.
C29_SameTextDistinctIds ==
    \A f, g \in Fns :
      (f # g /\ createHash(f) = createHash(g))
        => identified[f] \cap identified[g] = {}

\* C29 witness: two functions of identical source text were both identified,
\* one of them more than once
C29_Witness ==
    \E f, g \in Fns :
      /\ f # g /\ createHash(f) = createHash(g)
      /\ identified[f] # {} /\ identified[g] # {}
      /\ Cardinality(identified[f]) >= 2
      /\ ids[createHash(f)] = <<g, f>>

\* C30: an instance record exists only for a component that is registered
\* and whose creation function and init hook did not fail.
C30_InstanceOnlyWhileInitialized ==
    \A n \in DOMAIN instances.api :
      /\ \E v \in CompVersions : <<n, v>> \in added
      /\ instances.api[n].init # "throws"

\* C31: in every attempt of a call the subscriber is invoked exactly once and
\* the wrapper of each decorator at most once, whatever the decorators do
\* with the continuation and whether or not they fail.
C31_SubscriberOncePerAttempt ==
    IsCall =>
      \A k \in Attempts :
        /\ Cardinality(At("sub", k)) = 1
        /\ \A i \in At("pre", k) : Cardinality(AtId("pre", k, Log[i].id)) = 1

\* the attempt a call that returned ended with
LastAttempt == CHOOSE k \in Attempts : \A j \in Attempts : j <= k

\* C32: in an attempt whose subscriber returns and whose decorators all call
\* the continuation once, a wrapper that throws after its continuation has
\* returned is transparent: the call returns the value the subscriber
\* produced, not an empty result.
C32_PostCallFailureKeepsValue ==
    (IsCall /\ res.outcome = "ret" /\ Attempts # {}) =>
      LET k == LastAttempt
      IN (/\ At("subThrow", k) = {}
          /\ \A i \in At("factory", k) : res.kinds[Log[i].fn] \in {"pass", "throwPost"}
          /\ \E i \in At("post", k) : res.kinds[Log[i].fn] = "throwPost")
           => res.value \in {SubVal(Candidates[k].fn), WrapperVal(Candidates[k].fn)}

\* C33: a decorator whose factory throws when it is invoked with the
\* continuation is swallowed: the call does not raise, the subscriber of that
\* attempt is still invoked, and decoratorError is emitted for the decorator.
C33_FactoryFailureIsSwallowed ==
    IsCall =>
      \A i \in DOMAIN Log :
        (Log[i].e = "factory" /\ FactoryThrows(res.kinds[Log[i].fn]))
          => /\ res.outcome # "raise"
             /\ At("sub", Log[i].k) # {}
             /\ AtId("decoratorError", Log[i].k, Log[i].id) # {}

\* C34: removeComponent(def) of a registered component on a live manager
\* never raises, before init() as well as after it: it unregisters the
\* component and publishes app/componentRemoved.
C34_RemoveNeverRaises ==
    [][\A c \in Defs :
         (/\ PairOf(c) \in added /\ ~destroyed
          /\ ares'.op = "removeComponent" /\ ares'.def = c)
           => /\ ares'.outcome = "ok"
              /\ PairOf(c) \notin added'
              /\ \E i \in EventsIn(ares'.log, "app/componentRemoved") :
                   ares'.log[i].def = c]_vars

\* the names under which table tbl holds a registration with this id
NamesOf(tbl, id) == {n \in DOMAIN tbl : HasKey(tbl[n], id)}

\* C35: a descriptor exists for an id exactly when a subscriber or decorator
\* registration with that id exists, and its channels and decorated sets are
\* the names under which those registrations exist; every registration has a
\* descriptor.
C35_DescriptorsMatchRegistrations ==
    /\ \A id \in DOMAIN descriptors :
         /\ descriptors[id].channels = NamesOf(channels, id)
         /\ descriptors[id].decorated = NamesOf(decorators, id)
         /\ NamesOf(channels, id) \cup NamesOf(decorators, id) # {}
    /\ \A n \in DOMAIN channels : \A i \in DOMAIN channels[n] :
         channels[n][i].id \in DOMAIN descriptors
    /\ \A n \in DOMAIN decorators : \A i \in DOMAIN decorators[n] :
         decorators[n][i].id \in DOMAIN descriptors

\* C35 witness: a disconnect has removed the last registration of an id and
\* its descriptor is gone, while other descriptors remain
C35_Witness ==
    /\ \E n \in DOMAIN channels : channels[n] = <<>>
    /\ \E f \in Fns : \E id \in identified[f] :
         IsNum(id) /\ id \notin DOMAIN descriptors
    /\ descriptors # <<>>

\* the functions some interface definition connects to the channel called name
ConnectableTo(name) ==
    UNION {{prefixProperties(iface)[i].fn :
              i \in {j \in DOMAIN prefixProperties(iface) :
                       normalizeChannelName(prefixProperties(iface)[j].ch) = name}} :
           iface \in IfaceDefs}

\* C36: a call on channel c invokes as subscriber only functions that were
\* passed to connect for c, every registration dispatches to the function it
\* was stored for, and two distinct functions never share an id.
C36_RegistrationsDispatchToTheirFunction ==
    /\ \A f, g \in Fns : f # g => identified[f] \cap identified[g] = {}
    /\ \A n \in DOMAIN channels : \A i \in DOMAIN channels[n] :
         descriptors[channels[n][i].id].fn \in ConnectableTo(n)
    /\ res.op = "channelCall" =>
         \A i \in DOMAIN Log :
           Log[i].e = "sub" => Log[i].fn \in ConnectableTo(res.ch.name)

\* C37: addComponent(def) on a live manager registers def whenever its
\* (name, version) pair is not currently registered: it does not raise the
\* duplicate error for a second version of a registered name or for a
\* component that was removed before.
C37_AddSucceedsWhenNotRegistered ==
    [][\A c \in Defs :
         (/\ PairOf(c) \notin added /\ ~destroyed
          /\ ares'.op = "addComponent" /\ ares'.def = c /\ ares' # ares)
           => /\ PairOf(c) \in added'
              /\ hasComponent(components', c.name, PairOf(c)[2])]_vars

\* C38: the creation function of a component is invoked at most once per
\* registration (no operation invokes it twice, nor again for a registration
\* that already has been created), and when init() completes normally on a
\* live manager every registered component has been created.
C38_CreatedExactlyOnce ==
    [][/\ \A c \in Defs :
            LET n == Cardinality({i \in EventsIn(ares'.log, "create") :
                                     PairOf(ares'.log[i].def) = PairOf(c)})
            IN  ares' # ares =>
                    /\ n <= 1
                    /\ (PairOf(c) \in created /\ PairOf(c) \in added') => n = 0
       /\ (ares'.op = "init" /\ ares' # ares /\ ares'.outcome = "ok" /\ ~destroyed)
              => added' \subseteq created']_vars

\* C39: an init() that fails with a graph-cycle error leaves the manager as it
\* was before the call: the call raises, the manager is not marked
\* initialized and the queue, the registrations and the instances are unchanged.
C39_CycleFailureLeavesStateUnchanged ==
    [][(ares'.op = "init" /\ ares' # ares
            /\ ~appInitialized /\ ~destroyed /\ HasCycle(graph))
          => /\ ares'.outcome = "raise"
             /\ ~appInitialized'
             /\ toBeInitialized' = toBeInitialized
             /\ appState' = appState]_vars

\* C40: a call works on the lists it made when it started.  Whatever the code
\* run by its attempts connects, disconnects, decorates or undecorates, the
\* call tries the candidates, in the order and under the decorators, of the
\* same call made without any such registration (res.plain); the next call
\* works on the tables as they are when it starts.
TraceOf(r) == [outcome |-> r.outcome, value |-> r.value, log |-> r.log]
IsPrefixOf(a, b) == Len(a) <= Len(b) /\ SubSeq(b, 1, Len(a)) = a
C40_CallWorksOnSnapshot ==
    /\ res.op = "running" => IsPrefixOf(res.log, res.plain.log)
    /\ res.op = "reentrantCall" => TraceOf(res) = res.plain
    /\ res.op = "nextCall" =>
         /\ \A k \in Attempts :
              /\ k <= Len(Candidates)
              /\ \A i \in At("attempt", k) :
                   Log[i].id = Candidates[k].id /\ Log[i].fn = Candidates[k].fn
              /\ \A i \in At("factory", k) :
                   \E j \in DOMAIN callDecorations(res.ch) :
                      callDecorations(res.ch)[j].id = Log[i].id
         /\ (res.outcome = "noImplementation") = (Candidates = <<>>)

\* a call with two attempts whose code registered during the first attempt;
\* the call finished as the undisturbed call, and the next call starts with
\* a candidate list that differs from the first call's
C40_Witness ==
    /\ res.op = "nextCall"
    /\ \E i \in DOMAIN res.first.reentries : res.first.reentries[i].k = 1
    /\ res.first.attempts >= 2
    /\ [i \in DOMAIN Candidates |-> Candidates[i].id]
         # [i \in DOMAIN res.first.subscribers |-> res.first.subscribers[i].id]
====
